---- MODULE Spec2Model ----
(***************************************************************************)
(* Model of src/index.js: an in-memory ingestion service.  POST /ingest    *)
(* splits a list of ids into batches of three, pushes them on a priority   *)
(* queue and starts processBatches() when it is not running; the loop      *)
(* takes one batch at a time, fetches its ids, marks it completed and      *)
(* waits for a cooldown.  GET /status/:id reads the store.                 *)
(*                                                                         *)
(* Node runs every handler and every continuation of an async function to  *)
(* its next await without interruption, so one action is one such run.     *)
(*                                                                         *)
(* What the model takes from the platform: uuidv4() never repeats (ids are *)
(* the next unused numbers), Date.now() never decreases, Array.sort is     *)
(* stable, and timers set with one delay fire in the order they were set.  *)
(* Requests carry a priority of PRIORITY_VALUES or none; the handler does  *)
(* not check it, and the comparator is undefined on any other value.       *)
(***************************************************************************)
EXTENDS Integers, Sequences, FiniteSets

(* ---------------------------------------------------------------- bounds *)

\* accepted POST /ingest requests in a behaviour
MaxSubmits == 2
\* batches created in a behaviour
MaxBatches == 3
\* longest ids array of a request
MaxLen == 4
\* largest value Date.now() returns
MaxClock == 1
\* longest ids array under SplitSpec
MaxSplitLen == 7

(* ------------------------------------------------------------- constants *)

\* for (let i = 0; i < ids.length; i += 3), ids.slice(i, i + 3)
BatchSize == 3

\* the ids a request can name; the arrays of Spec are prefixes of Catalog
Catalog == <<"id1", "id2", "id3", "id4", "id5", "id6", "id7", "id8">>

Items == {"id1", "id2"}

Priorities == {"HIGH", "MEDIUM", "LOW"}

VARIABLES
    ingestionStore,   \* Map ingestionId -> ingestion data, in insertion order
    processingQueue,  \* array of batch objects (references)
    isProcessing,     \* the running flag
    batchObjects,     \* the batch objects, by reference (= batch_id)
    loops,            \* the suspended processBatches() calls
    clock,            \* the last value Date.now() returned
    request,          \* the last request received
    response,         \* the response sent to it
    dispatchLog,      \* history: the batches set to 'triggered', in order
    cooledDown        \* history: the batches whose cooldown timer has fired

vars == <<ingestionStore, processingQueue, isProcessing, batchObjects, loops,
          clock, request, response, dispatchLog, cooledDown>>

core == <<ingestionStore, processingQueue, isProcessing, batchObjects, loops>>

(* ------------------------------------------------------------ JS values *)

\* the values of req.body.ids: undefined, an object such as {}, an array
Absent == [kind |-> "absent", items |-> <<>>]
AnObject == [kind |-> "object", items |-> <<>>]
List(s) == [kind |-> "list", items |-> s]

\* !ids is true of undefined; objects and arrays, even empty, are truthy
Truthy(v) == v.kind # "absent"

IsArray(v) == v.kind = "list"

\* ids.length: undefined for {} so that i < ids.length is false at once
LengthOf(v) == IF v.kind = "list" THEN Len(v.items) ELSE 0

\* Slice with the end one short: ids.slice(i, i + 2)
SliceShort(s, i, j) ==
    SubSeq(s, i + 1, IF j - 1 < Len(s) THEN j - 1 ELSE Len(s))

\* ids.slice(i, i + 3), i counted from 0
Slice(s, i, j) ==
    SubSeq(s, i + 1, IF j < Len(s) THEN j ELSE Len(s))

\* const { ids, priority = 'MEDIUM' } = req.body
PriorityOf(p) == IF p = "omitted" THEN "MEDIUM" ELSE p

PRIORITY_VALUES(p) ==
    CASE p = "HIGH" -> 0
      [] p = "MEDIUM" -> 1
      [] p = "LOW" -> 2

Min(S) == CHOOSE x \in S : \A y \in S : x <= y

(* -------------------------------------------------------- batch splitting *)

\* the ids a request's value is cut into, in order (lines 33-34)
RECURSIVE SplitFrom(_, _)
SplitFrom(v, i) ==
    IF i < LengthOf(v)
    THEN <<Slice(v.items, i, i + BatchSize)>> \o SplitFrom(v, i + BatchSize)
    ELSE <<>>

\* const batch = { batch_id, ids, status: 'yet_to_start', priority, created_time }
NewBatch(id, batchIds, priority, now) ==
    [batch_id |-> id, ids |-> batchIds, status |-> "yet_to_start",
     priority |-> priority, created_time |-> now]

(* ------------------------------------------------------------- the queue *)

\* Compare without the priority test
CompareTimeOnly(a, b) == a.created_time - b.created_time

\* the comparator of processingQueue.sort, on batch objects
Compare(a, b) ==
    IF PRIORITY_VALUES(a.priority) # PRIORITY_VALUES(b.priority)
    THEN PRIORITY_VALUES(a.priority) - PRIORITY_VALUES(b.priority)
    ELSE a.created_time - b.created_time

\* x put into the sorted s before the first element that compares greater
RECURSIVE InsertSorted(_, _, _)
InsertSorted(x, s, objs) ==
    IF s = <<>> THEN <<x>>
    ELSE IF Compare(objs[Head(s)], objs[x]) > 0 THEN <<x>> \o s
    ELSE <<Head(s)>> \o InsertSorted(x, Tail(s), objs)

\* SortQueue left out: the queue as pushed
Unsorted(q, objs) == q

\* Array.prototype.sort, which is stable, on an array of references
RECURSIVE SortQueue(_, _)
SortQueue(q, objs) ==
    IF q = <<>> THEN <<>>
    ELSE InsertSorted(q[Len(q)], SortQueue(SubSeq(q, 1, Len(q) - 1), objs), objs)

(* ------------------------------------------------------- status updating *)

\* the overall status computed from the batches of one ingestion
OverallStatus(refs, objs) ==
    LET allCompleted == \A j \in 1..Len(refs) : objs[refs[j]].status = "completed"
        anyTriggered == \E j \in 1..Len(refs) : objs[refs[j]].status = "triggered"
    IN  IF allCompleted THEN "completed"
        ELSE IF anyTriggered THEN "triggered"
        ELSE "yet_to_start"

\* findIndex(batch => batch.batch_id === updatedBatch.batch_id), 0 for -1
FindIndex(refs, objs, id) ==
    LET found == {j \in 1..Len(refs) : objs[refs[j]].batch_id = id}
    IN  IF found = {} THEN 0 ELSE Min(found)

\* UpdateIngestionStatus without the recomputation of the overall status
UpdateBatchOnly(store, objs, updatedBatch) == store

\* updateIngestionStatus pushing the batch instead of replacing it
UpdateAppendingBatch(store, objs, updatedBatch) ==
    LET id == objs[updatedBatch].batch_id
        owners == {k \in 1..Len(store) : FindIndex(store[k].batches, objs, id) # 0}
    IN  IF owners = {} THEN store
        ELSE LET k == Min(owners)
                 pushed == Append(store[k].batches, updatedBatch)
             IN  [store EXCEPT ![k] = [ingestion_id |-> store[k].ingestion_id,
                                       status |-> OverallStatus(pushed, objs),
                                       batches |-> pushed]]

\* the store after updateIngestionStatus(updatedBatch)
UpdateIngestionStatus(store, objs, updatedBatch) ==
    LET id == objs[updatedBatch].batch_id
        owners == {k \in 1..Len(store) : FindIndex(store[k].batches, objs, id) # 0}
    IN  IF owners = {} THEN store
        ELSE LET k == Min(owners)
                 batchIndex == FindIndex(store[k].batches, objs, id)
                 replaced == [store[k].batches EXCEPT ![batchIndex] = updatedBatch]
             IN  [store EXCEPT ![k] = [ingestion_id |-> store[k].ingestion_id,
                                       status |-> OverallStatus(replaced, objs),
                                       batches |-> replaced]]

(* --------------------------------------------------------- processBatches *)

\* MarkTriggered writing the final status at once
MarkTriggeredAsCompleted(objs, b) == [objs EXCEPT ![b].status = "completed"]

\* batch.status = 'triggered'
MarkTriggered(objs, b) == [objs EXCEPT ![b].status = "triggered"]

\* batch.status = 'completed'
MarkCompleted(objs, b) == [objs EXCEPT ![b].status = "completed"]

\* processingQueue.shift() leaving the queue as it was
AfterPeek(q) == q

\* the queue after processingQueue.shift()
AfterShift(q) == Tail(q)

\* One pass from the while test of processBatches to its next await, or to
\* its end: what the call leaves behind.  running is the flag as the call
\* found it (set to true at entry, or left alone after a cooldown).
LoopPass(q, store, objs, log, running) ==
    IF Len(q) > 0
    THEN LET batch == Head(q)
             objs1 == MarkTriggered(objs, batch)
         IN  [queue |-> AfterShift(q),
              store |-> UpdateIngestionStatus(store, objs1, batch),
              objs |-> objs1,
              call |-> <<[pc |-> "fetching", batch |-> batch,
                          pending |-> objs[batch].ids]>>,
              running |-> running,
              log |-> Append(log, [batch_id |-> objs[batch].batch_id,
                                   known |-> Len(objs)])]
    ELSE [queue |-> q, store |-> store, objs |-> objs, call |-> <<>>,
          running |-> FALSE, log |-> log]

\* ShouldStart with the test of the flag inverted
ShouldStartWhenRunning(running) == running

\* ShouldStart without the test of the flag
ShouldStartAlways(running) == TRUE

\* if (!isProcessing)
ShouldStart(running) == ~running

RemoveAt(s, k) == SubSeq(s, 1, k - 1) \o SubSeq(s, k + 1, Len(s))

(* ---------------------------------------------------------------- state *)

NoRequest == [op |-> "none", ids |-> Absent, id |-> 0]
NoResponse == [code |-> 0, ingestion_id |-> 0, body |-> <<>>]

Init ==
    /\ ingestionStore = <<>>
    /\ processingQueue = <<>>
    /\ isProcessing = FALSE
    /\ batchObjects = <<>>
    /\ loops = <<>>
    /\ clock = 0
    /\ request = NoRequest
    /\ response = NoResponse
    /\ dispatchLog = <<>>
    /\ cooledDown = {}

\* InvalidIds without the Array.isArray test
InvalidIdsFalsyOnly(v) == ~Truthy(v)

\* if (!ids || !Array.isArray(ids))
InvalidIds(v) == ~Truthy(v) \/ ~IsArray(v)

\* the successive values of Date.now() in one request: never decreasing
Readings(n) ==
    {t \in [1..n -> clock..MaxClock] : \A i \in 1..n : \A j \in i..n : t[i] <= t[j]}

(* ----------------------------------------------------------- POST /ingest *)

\* The handler of POST /ingest for body { ids: v, priority: p }, with the
\* values times that Date.now() returns for its batches.  uuidv4() gives
\* the next unused number.
Ingest(v, p, times) ==
    /\ request' = [op |-> "ingest", ids |-> v, id |-> 0]
    /\ IF InvalidIds(v)
       THEN /\ response' = [code |-> 400, ingestion_id |-> 0, body |-> <<>>]
            /\ UNCHANGED <<core, clock, dispatchLog, cooledDown>>
       ELSE LET priority == PriorityOf(p)
                ingestionId == Len(ingestionStore) + 1
                parts == SplitFrom(v, 0)
                n == Len(parts)
                first == Len(batchObjects)
                batches == [k \in 1..n |-> first + k]
                objs1 == batchObjects \o
                         [k \in 1..n |-> NewBatch(first + k, parts[k], priority, times[k])]
                queue1 == SortQueue(processingQueue \o batches, objs1)
                store1 == Append(ingestionStore,
                                 [ingestion_id |-> ingestionId,
                                  status |-> "yet_to_start",
                                  batches |-> batches])
                started == ShouldStart(isProcessing)
                pass == LoopPass(queue1, store1, objs1, dispatchLog, TRUE)
            IN  /\ Len(ingestionStore) < MaxSubmits
                /\ Len(batchObjects) + n <= MaxBatches
                /\ DOMAIN times = 1..n
                /\ clock' = IF n = 0 THEN clock ELSE times[n]
                /\ ingestionStore' = IF started THEN pass.store ELSE store1
                /\ processingQueue' = IF started THEN pass.queue ELSE queue1
                /\ batchObjects' = IF started THEN pass.objs ELSE objs1
                /\ isProcessing' = IF started THEN pass.running ELSE isProcessing
                /\ loops' = IF started THEN loops \o pass.call ELSE loops
                /\ dispatchLog' = IF started THEN pass.log ELSE dispatchLog
                /\ response' = [code |-> 200, ingestion_id |-> ingestionId,
                                body |-> <<>>]
                /\ UNCHANGED cooledDown

(* ---------------------------------------------------- GET /status/:id *)

\* the JSON of one ingestion: its batches are the objects themselves
Rendered(data) ==
    [ingestion_id |-> data.ingestion_id, status |-> data.status,
     batches |-> [j \in 1..Len(data.batches) |-> batchObjects[data.batches[j]]]]

\* ingestionStore.has(ingestionId) without the entry set last
StoreHasOlder(id) == id \in 1..(Len(ingestionStore) - 1)

\* ingestionStore.has(ingestionId)
StoreHas(id) == id \in 1..Len(ingestionStore)

\* GetStatus that also stores the status it recomputes for the ingestion
GetStatusRefreshing(id) ==
    /\ request' = [op |-> "status", ids |-> Absent, id |-> id]
    /\ IF ~StoreHas(id)
       THEN /\ response' = [code |-> 404, ingestion_id |-> 0, body |-> <<>>]
            /\ UNCHANGED ingestionStore
       ELSE LET data == [ingestionStore[id] EXCEPT
                            !.status = OverallStatus(ingestionStore[id].batches,
                                                     batchObjects)]
            IN  /\ ingestionStore' = [ingestionStore EXCEPT ![id] = data]
                /\ response' = [code |-> 200, ingestion_id |-> id,
                                body |-> <<Rendered(data)>>]
    /\ UNCHANGED <<processingQueue, isProcessing, batchObjects, loops, clock,
                   dispatchLog, cooledDown>>

GetStatus(id) ==
    /\ request' = [op |-> "status", ids |-> Absent, id |-> id]
    /\ response' =
         IF ~StoreHas(id)
         THEN [code |-> 404, ingestion_id |-> 0, body |-> <<>>]
         ELSE [code |-> 200, ingestion_id |-> id,
               body |-> <<Rendered(ingestionStore[id])>>]
    /\ UNCHANGED <<core, clock, dispatchLog, cooledDown>>

(* ------------------------------------------------- the loop's awaits *)

\* Promise.race in the place of Promise.all
AnySettled(rest) == TRUE

\* await Promise.all(promises) resumes: no fetch of the batch is left
AllSettled(rest) == rest = <<>>

\* the flag set to false as soon as a batch completes with the queue empty
FlagClearedWhenDrained(running, q) == IF q = <<>> THEN FALSE ELSE running

\* the flag between the completed batch and the cooldown: not written
FlagAfterCompleted(running, q) == running

\* One fetchDataFromExternalAPI timer of call k fires (the timers of a batch
\* are set in order with one delay, so they fire in order).  When it was the
\* last, Promise.all resolves and the call runs on to the cooldown.
FetchSettles(k) ==
    /\ k \in 1..Len(loops)
    /\ loops[k].pc = "fetching"
    /\ LET rest == Tail(loops[k].pending)
           batch == loops[k].batch
           objs1 == MarkCompleted(batchObjects, batch)
       IN  IF ~AllSettled(rest)
           THEN /\ loops' = [loops EXCEPT ![k].pending = rest]
                /\ UNCHANGED <<ingestionStore, batchObjects, isProcessing>>
           ELSE /\ loops' = [loops EXCEPT ![k] = [pc |-> "cooldown", batch |-> batch,
                                                 pending |-> <<>>]]
                /\ batchObjects' = objs1
                /\ ingestionStore' = UpdateIngestionStatus(ingestionStore, objs1, batch)
                /\ isProcessing' = FlagAfterCompleted(isProcessing, processingQueue)
    /\ UNCHANGED <<processingQueue, clock, request, response, dispatchLog,
                   cooledDown>>

\* The cooldown timer of call k fires: the while test, then either the next
\* batch up to its await, or isProcessing = false and the end of the call.
CooldownEnds(k) ==
    /\ k \in 1..Len(loops)
    /\ loops[k].pc = "cooldown"
    /\ LET pass == LoopPass(processingQueue, ingestionStore, batchObjects,
                            dispatchLog, isProcessing)
       IN  /\ processingQueue' = pass.queue
           /\ ingestionStore' = pass.store
           /\ batchObjects' = pass.objs
           /\ isProcessing' = pass.running
           /\ dispatchLog' = pass.log
           /\ cooledDown' = cooledDown \cup {loops[k].batch}
           /\ loops' = IF pass.call = <<>> THEN RemoveAt(loops, k)
                       ELSE [loops EXCEPT ![k] = pass.call[1]]
    /\ UNCHANGED <<clock, request, response>>

(* -------------------------------------------------------- specifications *)

\* the values of ids requests carry
Prefixes == {List(SubSeq(Catalog, 1, n)) : n \in 0..MaxLen}
Bodies == {Absent, AnObject} \cup Prefixes

SubmitStep ==
    \E v \in Bodies, p \in Priorities \cup {"omitted"} :
        \E times \in Readings(Len(SplitFrom(v, 0))) : Ingest(v, p, times)

QueryStep == \E id \in 0..MaxSubmits : GetStatus(id)

FetchStep == \E k \in 1..Len(loops) : FetchSettles(k)

CooldownStep == \E k \in 1..Len(loops) : CooldownEnds(k)

Next == SubmitStep \/ QueryStep \/ FetchStep \/ CooldownStep

Spec == Init /\ [][Next]_vars

\* the scheduler's timers fire: fetches settle and cooldowns end
FairSpec == Spec /\ WF_vars(FetchStep) /\ WF_vars(CooldownStep)

\* the splitter on every array over Items, one ingestion per behaviour
SplitLists == UNION {{List(s) : s \in [1..n -> Items]} : n \in 0..MaxSplitLen}

SplitSubmit ==
    /\ ingestionStore = <<>>
    /\ \E v \in SplitLists, p \in Priorities :
           \E times \in Readings(Len(SplitFrom(v, 0))) : Ingest(v, p, times)

SplitNext == SplitSubmit \/ FetchStep \/ CooldownStep

SplitSpec == Init /\ [][SplitNext]_vars

(* ------------------------------------------------- notions of the claims *)

Objs == 1..Len(batchObjects)
Subs == 1..Len(ingestionStore)

StatusOf(b) == batchObjects[b].status
RankOf(b) == PRIORITY_VALUES(batchObjects[b].priority)
BatchesOf(k) == {ingestionStore[k].batches[j] : j \in 1..Len(ingestionStore[k].batches)}

\* the step is a request that was answered
Answered == <<request, response>>' # <<request, response>>

\* the step is a POST /ingest that added an ingestion
Accepted ==
    /\ request'.op = "ingest"
    /\ Len(ingestionStore') = Len(ingestionStore) + 1

\* the position of batch b in the dispatch history, 0 when not dispatched
LogPos(b) ==
    LET at == {i \in 1..Len(dispatchLog) : dispatchLog[i].batch_id = b}
    IN  IF at = {} THEN 0 ELSE Min(at)

DispatchedBefore(x, y) ==
    /\ LogPos(x) > 0
    /\ LogPos(y) = 0 \/ LogPos(x) < LogPos(y)

(* ---------------------------------------------------------------- claims *)

\* the status the batches of ingestion k call for
DerivedStatus(k) ==
    IF \A b \in BatchesOf(k) : StatusOf(b) = "completed" THEN "completed"
    ELSE IF \E b \in BatchesOf(k) : StatusOf(b) = "triggered" THEN "triggered"
    ELSE "yet_to_start"

\* C1: in every state a query can observe, the status of every stored
\* ingestion is completed iff all its batches are completed, triggered iff
\* not all are completed and one is triggered, and yet_to_start otherwise;
\* an ingestion made from an empty array included.
C1_StatusDerived ==
    \A k \in Subs : ingestionStore[k].status = DerivedStatus(k)

\* the ingestion the step added and its batches, after the step
NewStatus == ingestionStore'[Len(ingestionStore')].status
NewBatches == ingestionStore'[Len(ingestionStore')].batches
NonEmptyRequest == Len(request'.ids.items) > 0

AllYetToStart ==
    /\ NewStatus = "yet_to_start"
    /\ \A j \in 1..Len(NewBatches) : batchObjects'[NewBatches[j]].status = "yet_to_start"

\* C2 as stated: right after a POST /ingest with a non-empty array, the new
\* ingestion and all its batches are yet_to_start, whether or not the loop
\* was running.
C2_Original ==
    [][(Accepted /\ NonEmptyRequest) => AllYetToStart]_vars

\* C2 as amended: right after a POST /ingest with a non-empty array that
\* found the loop running, the new ingestion and all its batches are
\* yet_to_start; when it found the loop not running, its first batch is
\* triggered, the others are yet_to_start and the ingestion is triggered.
C2_StatusAfterSubmit ==
    [][(Accepted /\ NonEmptyRequest) =>
         IF isProcessing
         THEN AllYetToStart
         ELSE /\ NewStatus = "triggered"
              /\ batchObjects'[NewBatches[1]].status = "triggered"
              /\ \A j \in 2..Len(NewBatches) :
                     batchObjects'[NewBatches[j]].status = "yet_to_start"]_vars

\* a POST /ingest that found the loop running has just been answered
C2_Witness ==
    /\ request.op = "ingest"
    /\ response.code = 200
    /\ Len(request.ids.items) > 0
    /\ ingestionStore[response.ingestion_id].status = "yet_to_start"
    /\ \E b \in Objs : StatusOf(b) = "triggered"
    /\ isProcessing

\* a batch x of a LOW ingestion and a batch y of a HIGH ingestion made later
LowThenHigh(x, y) ==
    \E k1 \in Subs, k2 \in Subs :
        /\ k1 < k2
        /\ x \in BatchesOf(k1)
        /\ y \in BatchesOf(k2)
        /\ batchObjects[x].priority = "LOW"
        /\ batchObjects[y].priority = "HIGH"

\* C3 as stated: a LOW ingestion, then a HIGH ingestion made while the LOW
\* batch is not completed: the HIGH batch is dispatched before the LOW batch.
C3_Original ==
    \A x \in Objs, y \in Objs :
        (LowThenHigh(x, y) /\ StatusOf(x) # "completed") => ~DispatchedBefore(x, y)

\* C3 as amended: a LOW batch that was still in the queue when a HIGH
\* ingestion was made (it was dispatched when the HIGH batch existed) is
\* dispatched after the HIGH batch.
C3_HighOvertakesQueuedLow ==
    \A x \in Objs, y \in Objs :
        (/\ LowThenHigh(x, y)
         /\ LogPos(x) > 0
         /\ dispatchLog[LogPos(x)].known >= y)
        => (LogPos(y) > 0 /\ LogPos(y) < LogPos(x))

\* a HIGH batch made after a LOW batch was dispatched before it
C3_Witness ==
    \E x \in Objs, y \in Objs :
        /\ LowThenHigh(x, y)
        /\ LogPos(y) > 0
        /\ LogPos(y) < LogPos(x)

\* batch a is not after batch b in the scheduling order (after the step)
NotAfter(a, b) ==
    LET oa == batchObjects'[a]
        ob == batchObjects'[b]
    IN  \/ PRIORITY_VALUES(oa.priority) < PRIORITY_VALUES(ob.priority)
        \/ /\ PRIORITY_VALUES(oa.priority) = PRIORITY_VALUES(ob.priority)
           /\ oa.created_time <= ob.created_time

\* the step sets batch b to triggered
DispatchedNow(b) ==
    /\ batchObjects'[b].status = "triggered"
    /\ b \in Objs => StatusOf(b) = "yet_to_start"

\* C4: the batch a dequeue removes is minimal, by (priority rank, then
\* created_time), among the batches pending at that moment: it is not after
\* any batch the dequeue leaves in the queue, the batches of ingestions made
\* during the drain included.
C4_DequeueMinimal ==
    [][\A b \in 1..Len(batchObjects') :
         DispatchedNow(b) =>
           \A j \in 1..Len(processingQueue') : NotAfter(b, processingQueue'[j])]_vars

\* the batch in flight overtook an older batch of lower priority that waits
C4_Witness ==
    \E y \in Objs :
        /\ StatusOf(y) = "triggered"
        /\ \E j \in 1..Len(processingQueue) :
               /\ processingQueue[j] < y
               /\ RankOf(y) < RankOf(processingQueue[j])

\* C5: at most one batch is triggered in any reachable state.
C5_OneTriggered ==
    Cardinality({b \in Objs : StatusOf(b) = "triggered"}) <= 1

\* one batch in flight, batches of two ingestions waiting behind it
C5_Witness ==
    /\ Cardinality({b \in Objs : StatusOf(b) = "triggered"}) = 1
    /\ Len(ingestionStore) >= 2
    /\ Len(processingQueue) >= 2

\* C6 as stated: when the timers fire, every accepted ingestion is
\* eventually completed, and the loop ends with the queue empty.
C6_Original ==
    /\ \A k \in 1..MaxSubmits :
           (Len(ingestionStore) >= k) ~>
               (Len(ingestionStore) >= k /\ ingestionStore[k].status = "completed")
    /\ <>[](~isProcessing /\ processingQueue = <<>>)

\* C7: a batch's status changes only from yet_to_start to triggered and from
\* triggered to completed; a new batch is yet_to_start, or triggered when
\* the request that made it dispatched it; no batch disappears.
C7_BatchStatusSteps ==
    [][/\ Len(batchObjects') >= Len(batchObjects)
       /\ \A b \in 1..Len(batchObjects') :
            IF b \in Objs
            THEN \/ batchObjects'[b].status = StatusOf(b)
                 \/ StatusOf(b) = "yet_to_start" /\ batchObjects'[b].status = "triggered"
                 \/ StatusOf(b) = "triggered" /\ batchObjects'[b].status = "completed"
            ELSE batchObjects'[b].status \in {"yet_to_start", "triggered"}]_vars

\* a batch went through both steps while another waits
C7_Witness ==
    /\ \E b \in Objs : StatusOf(b) = "completed"
    /\ \E b \in Objs : StatusOf(b) = "triggered"
    /\ \E b \in Objs : StatusOf(b) = "yet_to_start"

RECURSIVE Concat(_)
Concat(ss) == IF ss = <<>> THEN <<>> ELSE Head(ss) \o Concat(Tail(ss))

\* C8: an accepted array of N >= 1 ids gives ceil(N/3) batches of 1 to 3
\* ids, all but the last of 3, whose ids in batch order are the array.
C8_Split ==
    (Len(ingestionStore) = 1 /\ request.op = "ingest" /\ Len(request.ids.items) >= 1) =>
        LET input == request.ids.items
            N == Len(input)
            refs == ingestionStore[1].batches
            idsOf == [j \in 1..Len(refs) |-> batchObjects[refs[j]].ids]
        IN  /\ Len(refs) = (N + 2) \div 3
            /\ \A j \in 1..Len(refs) : Len(idsOf[j]) \in 1..3
            /\ \A j \in 1..(Len(refs) - 1) : Len(idsOf[j]) = 3
            /\ Concat(idsOf) = input

\* seven ids were cut into three batches, the last of one id
C8_Witness ==
    /\ Len(ingestionStore) = 1
    /\ Len(request.ids.items) = 7
    /\ Len(ingestionStore[1].batches) = 3
    /\ Len(batchObjects[ingestionStore[1].batches[3]].ids) = 1

\* C9: a POST /ingest whose ids are missing or no array is answered 400 and
\* changes neither the store, the queue, the batches, the flag nor the loop.
C9_InvalidRejected ==
    [][(Answered /\ request'.op = "ingest" /\ request'.ids.kind # "list") =>
         (/\ response'.code = 400
          /\ response'.ingestion_id = 0
          /\ UNCHANGED core)]_vars

\* an object was sent as ids while a batch was in flight, and refused
C9_Witness ==
    /\ request.op = "ingest"
    /\ request.ids.kind = "object"
    /\ response.code = 400
    /\ isProcessing
    /\ Len(ingestionStore) >= 1

\* C10: a POST /ingest with an empty array is answered 400, adds no
\* ingestion and returns no ingestion_id.
C10_Original ==
    [][(Answered /\ request'.op = "ingest" /\ request'.ids = List(<<>>)) =>
         (/\ response'.code = 400
          /\ response'.ingestion_id = 0
          /\ UNCHANGED ingestionStore)]_vars

\* the ids POST /ingest has returned
ReturnedIds == {ingestionStore[k].ingestion_id : k \in Subs}

\* the record of ingestion id as the store and the batch objects hold it
RecordOf(id) ==
    LET data == ingestionStore[CHOOSE k \in Subs : ingestionStore[k].ingestion_id = id]
    IN  [ingestion_id |-> id, status |-> data.status,
         batches |-> [j \in 1..Len(data.batches) |-> batchObjects[data.batches[j]]]]

\* the step is a GET /status that was answered
QueryAnswered == Answered /\ request'.op = "status"

\* C11: a GET /status with an id no POST /ingest returned is answered 404;
\* with an id one returned it is answered 200 with that ingestion's record;
\* no ingestion ever leaves the store or changes its id.
C11_QueryFindsExactlyReturned ==
    [][/\ QueryAnswered =>
            IF request'.id \in ReturnedIds
            THEN /\ response'.code = 200
                 /\ response'.body = <<RecordOf(request'.id)>>
            ELSE /\ response'.code = 404
                 /\ response'.body = <<>>
       /\ Len(ingestionStore') >= Len(ingestionStore)
       /\ \A k \in Subs :
              ingestionStore'[k].ingestion_id = ingestionStore[k].ingestion_id]_vars

\* the first ingestion was found and read after a later one was made, and
\* after its batch completed
C11_Witness ==
    /\ request.op = "status"
    /\ request.id = 1
    /\ response.code = 200
    /\ response.body[1].status = "completed"
    /\ Len(ingestionStore) >= 2

\* the answer the last GET /status got is the one the state still calls for
AnswerStillHolds ==
    /\ request.op = "status"
    /\ IF request.id \in ReturnedIds
       THEN response.code = 200 /\ response.body = <<RecordOf(request.id)>>
       ELSE response.code = 404

\* C12: a GET /status changes neither the store, the queue, the batches, the
\* flag nor the loop; asked again for the same id while nothing the first
\* answer showed has changed, it gives the identical answer.
C12_QueryReadsOnly ==
    [][/\ QueryAnswered => UNCHANGED <<core, clock, dispatchLog, cooledDown>>
       /\ (AnswerStillHolds /\ request'.op = "status" /\ request'.id = request.id)
            => response' = response]_vars

\* an ingestion was read while its batch was in flight
C12_Witness ==
    /\ AnswerStillHolds
    /\ response.code = 200
    /\ response.body[1].status = "triggered"
    /\ isProcessing

\* the batch dispatched last before the step
LastDispatched == dispatchLog[Len(dispatchLog)].batch_id

\* C13: when a batch is dispatched, the batch dispatched before it is
\* completed and its cooldown timer has fired (in this step at the latest).
C13_CooldownBetweenDispatches ==
    [][\A b \in 1..Len(batchObjects') :
         (DispatchedNow(b) /\ dispatchLog # <<>>) =>
            /\ StatusOf(LastDispatched) = "completed"
            /\ LastDispatched \in cooledDown']_vars

\* a second batch was dispatched by a request that found the loop ended
C13_Witness ==
    /\ Len(dispatchLog) = 2
    /\ request.op = "ingest"
    /\ response.code = 200
    /\ ingestionStore[response.ingestion_id].status = "triggered"
    /\ dispatchLog[1].batch_id \in cooledDown

\* C14: at most one processBatches call is active; a POST /ingest that finds
\* the flag set starts none, dispatches nothing and only adds its batches to
\* the queue; a call starts only in a POST /ingest that found the flag clear.
C14_SingleLoop ==
    [][/\ Len(loops') <= 1
       /\ (Accepted /\ isProcessing) =>
            /\ loops' = loops
            /\ dispatchLog' = dispatchLog
            /\ Len(processingQueue') = Len(processingQueue) + Len(NewBatches)
            /\ \A j \in 1..Len(NewBatches) :
                   \E i \in 1..Len(processingQueue') : processingQueue'[i] = NewBatches[j]
            /\ \A i \in 1..Len(processingQueue) :
                   \E j \in 1..Len(processingQueue') : processingQueue'[j] = processingQueue[i]
       /\ Len(loops') > Len(loops) => (Accepted /\ ~isProcessing)]_vars

\* a request came during the cooldown after the last queued batch: its
\* batch waits in the queue of the one call there is
C14_Witness ==
    /\ request.op = "ingest"
    /\ response.code = 200
    /\ Len(loops) = 1
    /\ loops[1].pc = "cooldown"
    /\ Len(processingQueue) = 1
    /\ processingQueue[1] \in BatchesOf(response.ingestion_id)
    /\ \A b \in Objs : b \notin BatchesOf(response.ingestion_id) => StatusOf(b) = "completed"

\* C15: every batch in the queue is yet_to_start, and is there once.
C15_QueueHoldsNotStarted ==
    /\ \A j \in 1..Len(processingQueue) : StatusOf(processingQueue[j]) = "yet_to_start"
    /\ \A i \in 1..Len(processingQueue), j \in 1..Len(processingQueue) :
           processingQueue[i] = processingQueue[j] => i = j

\* batches wait while one is in flight and one is completed
C15_Witness ==
    /\ processingQueue # <<>>
    /\ \E b \in Objs : StatusOf(b) = "triggered"
    /\ \E b \in Objs : StatusOf(b) = "completed"

\* the status the store shows for the ingestion that owns batch b
OwnerStatusAfter(b) ==
    LET k == CHOOSE k \in 1..Len(ingestionStore') :
                 \E j \in 1..Len(ingestionStore'[k].batches) :
                     ingestionStore'[k].batches[j] = b
    IN  ingestionStore'[k].status

\* C16: a dispatched batch has one fetch pending for each of its ids, set
\* off with its triggered status in the store; a pending fetch is never set
\* off again; the batch is completed only by the step that settles its last
\* fetch; while a fetch is pending the batch stays triggered and no batch is
\* dispatched.
C16_FetchJoin ==
    [][/\ \A b \in 1..Len(batchObjects') :
            DispatchedNow(b) =>
               /\ OwnerStatusAfter(b) = "triggered"
               /\ \E k \in 1..Len(loops') :
                      loops'[k] = [pc |-> "fetching", batch |-> b,
                                   pending |-> batchObjects'[b].ids]
               /\ \A k \in 1..Len(loops) : loops[k].pc # "fetching"
       /\ \A b \in Objs :
            (StatusOf(b) = "triggered" /\ batchObjects'[b].status # "triggered") =>
               /\ batchObjects'[b].status = "completed"
               /\ \E k \in 1..Len(loops) :
                      /\ loops[k].batch = b
                      /\ loops[k].pc = "fetching"
                      /\ Len(loops[k].pending) = 1
       /\ \A k \in 1..Len(loops') :
            loops'[k].pc = "fetching" =>
               /\ loops'[k].pending # <<>>
               /\ batchObjects'[loops'[k].batch].status = "triggered"
               /\ k \in 1..Len(loops) /\ loops[k].pc = "fetching" =>
                      /\ loops'[k].batch = loops[k].batch
                      /\ Len(loops'[k].pending) <= Len(loops[k].pending)]_vars

\* two of the three fetches of a batch have settled: it is still triggered
\* and another batch waits
C16_Witness ==
    /\ Len(loops) = 1
    /\ loops[1].pc = "fetching"
    /\ Len(loops[1].pending) = 1
    /\ Len(batchObjects[loops[1].batch].ids) = 3
    /\ processingQueue # <<>>

\* C17: all batches of one ingestion carry the same created_time.
C17_Original ==
    \A k \in Subs : \A x \in BatchesOf(k), y \in BatchesOf(k) :
        batchObjects[x].created_time = batchObjects[y].created_time

\* a batch without its status
Fixed(o) ==
    [batch_id |-> o.batch_id, ids |-> o.ids, priority |-> o.priority,
     created_time |-> o.created_time]

\* C18: no step changes the batch_id, ids, priority or created_time of a
\* batch, nor the id or the batch list of an ingestion in the store.
C18_OnlyStatusChanges ==
    [][/\ \A b \in Objs :
            /\ b \in 1..Len(batchObjects')
            /\ Fixed(batchObjects'[b]) = Fixed(batchObjects[b])
       /\ \A k \in Subs :
            /\ k \in 1..Len(ingestionStore')
            /\ ingestionStore'[k].ingestion_id = ingestionStore[k].ingestion_id
            /\ ingestionStore'[k].batches = ingestionStore[k].batches]_vars

\* an ingestion of two batches went through the loop beside a later one
C18_Witness ==
    /\ Len(ingestionStore) >= 2
    /\ Len(ingestionStore[1].batches) = 2
    /\ ingestionStore[1].status = "completed"
    /\ ingestionStore[2].status = "completed"

StatusRank(st) ==
    CASE st = "yet_to_start" -> 0
      [] st = "triggered" -> 1
      [] st = "completed" -> 2

\* C19: the status of an ingestion never moves backwards along
\* yet_to_start, triggered, completed.
C19_Original ==
    [][\A k \in Subs :
         StatusRank(ingestionStore'[k].status) >= StatusRank(ingestionStore[k].status)]_vars

\* C20: whenever the flag is clear the queue is empty, and whenever a batch
\* waits in the queue or is in flight a processBatches call is pending.
C20_IdleMeansEmpty ==
    /\ ~isProcessing => processingQueue = <<>>
    /\ (processingQueue # <<>> \/ \E b \in Objs : StatusOf(b) = "triggered")
          => (isProcessing /\ Len(loops) = 1)
    /\ isProcessing <=> loops # <<>>

\* the loop has ended after a drain in which a second ingestion came
C20_Witness ==
    /\ ~isProcessing
    /\ processingQueue = <<>>
    /\ Len(ingestionStore) >= 2
    /\ Len(dispatchLog) >= 2
    /\ \A b \in Objs : StatusOf(b) = "completed"

(* ------------------------------------------- what holds beside C1 and C6 *)

\* the status of an ingestion that has a batch is the derived one
StatusDerivedWhenBatched ==
    \A k \in Subs :
        ingestionStore[k].batches # <<>> => ingestionStore[k].status = DerivedStatus(k)

\* the service without queries, which change nothing the loop reads
DrainNext == SubmitStep \/ FetchStep \/ CooldownStep

DrainSpec == Init /\ [][DrainNext]_vars /\ WF_vars(FetchStep) /\ WF_vars(CooldownStep)

\* under DrainSpec: when the timers fire, an ingestion that has a batch is
\* eventually completed, and the loop ends with the queue empty
BatchedEventuallyCompleted ==
    /\ \A k \in 1..MaxSubmits :
           (Len(ingestionStore) >= k /\ ingestionStore[k].batches # <<>>) ~>
               (Len(ingestionStore) >= k /\ ingestionStore[k].status = "completed")
    /\ <>[](~isProcessing /\ processingQueue = <<>>)

====
